---------------------------- MODULE Spec2Model ----------------------------
(***************************************************************************)
(* A state-machine model of the e-commerce backend: the account directory  *)
(* (accounts/), the category tree (categories/), the product catalog       *)
(* (products/) and the order ledger (orders/).  The relational store is    *)
(* the state; every serializer, view and admin operation is one action.    *)
(***************************************************************************)
EXTENDS Integers, Sequences, FiniteSets, TLC

VARIABLES
    user,             \* accounts_user rows: phone_number -> record
    nextUserId,       \* the AutoField sequence of User
    token,            \* authtoken_token rows: phone_number -> key (NoToken: no row)
    nextTokenKey,     \* the next key Token.generate_key hands out
    session,          \* phone numbers holding a session made by login(request, user)
    company,          \* companies_company rows: id -> [is_active]
    nextCompanyId,    \* the AutoField sequence of Company
    category,         \* categories_category rows: id -> [parent, is_active, company]
    nextCategoryId,   \* the AutoField sequence of Category
    product,          \* products_product rows: id -> record
    nextProductId,    \* the AutoField sequence of Product
    order,            \* orders_order rows: id -> record
    nextOrderId,      \* the AutoField sequence of Order
    orderItem,        \* orders_orderitem rows: id -> record
    nextOrderItemId,  \* the AutoField sequence of OrderItem
    resp,             \* the last request served, with its response
    updating,         \* per worker: the category update it is serving
    creating          \* per worker: the product creation it is serving

vars == <<user, nextUserId, token, nextTokenKey, session, company,
          nextCompanyId, category, nextCategoryId,
          product, nextProductId, order, nextOrderId, orderItem,
          nextOrderItemId, resp, updating, creating>>

accountVars == <<user, nextUserId, token, nextTokenKey, session>>
companyVars == <<company, nextCompanyId>>
requestVars == <<updating, creating>>
categoryVars == <<category, nextCategoryId>>
productVars == <<product, nextProductId>>
orderVars == <<order, nextOrderId, orderItem, nextOrderItemId>>

(***************************************************************************)
(* Bounds of the model.                                                    *)
(***************************************************************************)
MaxCategories == 4
MaxTokenKeys == 3
MaxProducts == 10

MaxCatalogProducts == 2
MaxOrders == 2

MaxLedgerOrders == 1
MaxOrderItems == 2
MaxCompanies == 1

MaxWorkers == 2

MaxConcurrentProducts == 2

\* The workers of the pool that serve requests side by side.
Workers == 1..MaxWorkers

\* A worker that is serving no write request.
Idle == [pc |-> "idle"]

(***************************************************************************)
(* Account directory                                                       *)
(***************************************************************************)
Phones == {"+998901234567", "+998907654321"}

\* Candidate passwords; the last one fails AUTH_PASSWORD_VALIDATORS
\* ("12345678" is entirely numeric).
Passwords == {"P@ssw0rd1", "Tr0ub4dor&3", "12345678"}

NoUser == "anonymous"
NoToken == 0

\* django.contrib.auth.password_validation.validate_password under the
\* validators of settings.AUTH_PASSWORD_VALIDATORS.
ValidatePassword(password) == password \notin {"12345678"}

\* User.set_password / check_password: the stored value is a salted hash,
\* never the password itself; a check re-derives it.
MakePassword(password) == <<"pbkdf2_sha256", password>>

CheckPassword(password, encoded) == encoded = MakePassword(password)

\* validate without the comparison of the two passwords.
RegistrationValidateNoCompare(password, password_confirm) == {}

\* UserRegistrationSerializer.validate
RegistrationValidate(password, password_confirm) ==
    IF password # password_confirm THEN {"password_mismatch"} ELSE {}

\* UserRegistrationSerializer.is_valid: the field validators run first (the
\* unique phone_number of the model, validate_password on password); the
\* object-level validate runs only when no field failed.
RegistrationErrors(phone, password, password_confirm) ==
    LET fieldErrors ==
            (IF phone \in DOMAIN user THEN {"phone_number_exists"} ELSE {})
            \cup (IF ValidatePassword(password) THEN {} ELSE {"password_policy"})
    IN  IF fieldErrors # {} THEN fieldErrors
        ELSE RegistrationValidate(password, password_confirm)

\* A token that is made anew at every call.
TokenCreateAlways(phone) == nextTokenKey

\* Token.objects.get_or_create(user=user): the row after the call.
TokenGetOrCreate(phone) ==
    IF phone \in DOMAIN token /\ token[phone] # NoToken
    THEN token[phone] ELSE nextTokenKey

TokenCreated(phone) == ~(phone \in DOMAIN token /\ token[phone] # NoToken)

\* register_view
Register(phone, password, password_confirm) ==
    LET errors == RegistrationErrors(phone, password, password_confirm) IN
    IF errors = {}
    THEN /\ nextTokenKey <= MaxTokenKeys
         /\ user' = (phone :> [password |-> MakePassword(password),
                               is_active |-> TRUE, id |-> nextUserId,
                               first_name |-> "Ali", last_name |-> "Karimov",
                               location |-> "", is_verified |-> FALSE,
                               date_joined |-> nextUserId]) @@ user
         /\ nextUserId' = nextUserId + 1
         /\ token' = (phone :> nextTokenKey) @@ token
         /\ nextTokenKey' = nextTokenKey + 1
         /\ resp' = [op |-> "register", status |-> 201, errors |-> {},
                     phone |-> phone, password |-> password,
                     password_confirm |-> password_confirm,
                     token |-> nextTokenKey]
         /\ UNCHANGED <<requestVars, companyVars, session, categoryVars, productVars, orderVars>>
    ELSE /\ resp' = [op |-> "register", status |-> 400, errors |-> errors,
                     phone |-> phone, password |-> password,
                     password_confirm |-> password_confirm,
                     token |-> NoToken]
         /\ UNCHANGED <<requestVars, companyVars, accountVars, categoryVars, productVars, orderVars>>

\* A login that forgets to check the password.
AuthenticateByPhoneOnly(phone, password) ==
    IF phone \in DOMAIN user /\ user[phone].is_active THEN phone ELSE NoUser

\* django.contrib.auth.authenticate(username=phone_number, password=password)
\* with the default ModelBackend (settings.py names no other backend): the
\* user whose USERNAME_FIELD matches, whose password checks and who may
\* authenticate (is_active), else None.
Authenticate(phone, password) ==
    IF /\ phone \in DOMAIN user
       /\ CheckPassword(password, user[phone].password)
       /\ user[phone].is_active
    THEN phone ELSE NoUser

\* UserLoginSerializer.validate
LoginErrors(phone, password) ==
    LET u == Authenticate(phone, password) IN
    IF u = NoUser THEN {"invalid_credentials"}
    ELSE IF ~user[u].is_active THEN {"inactive"}
    ELSE {}

\* login_view
Login(phone, password) ==
    LET errors == LoginErrors(phone, password) IN
    IF errors = {}
    THEN /\ TokenCreated(phone) => nextTokenKey <= MaxTokenKeys
         /\ session' = session \cup {phone}
         /\ token' = [token EXCEPT ![phone] = TokenGetOrCreate(phone)]
         /\ nextTokenKey' = IF TokenCreated(phone) THEN nextTokenKey + 1
                            ELSE nextTokenKey
         /\ resp' = [op |-> "login", status |-> 200, errors |-> {},
                     phone |-> phone, password |-> password,
                     token |-> TokenGetOrCreate(phone)]
         /\ UNCHANGED <<requestVars, companyVars, user, nextUserId, categoryVars, productVars, orderVars>>
    ELSE /\ resp' = [op |-> "login", status |-> 400, errors |-> errors,
                     phone |-> phone, password |-> password,
                     token |-> NoToken]
         /\ UNCHANGED <<requestVars, companyVars, accountVars, categoryVars, productVars, orderVars>>

\* The user a request is served as: SessionAuthentication, then
\* TokenAuthentication (REST_FRAMEWORK.DEFAULT_AUTHENTICATION_CLASSES); both
\* turn away a user who is not active.
RequestUser(credential) ==
    IF credential.kind = "session"
    THEN IF credential.phone \in session /\ user[credential.phone].is_active
         THEN credential.phone ELSE NoUser
    ELSE IF \E p \in DOMAIN token :
                token[p] = credential.key /\ user[p].is_active
         THEN CHOOSE p \in DOMAIN token : token[p] = credential.key
         ELSE NoUser

\* The credentials a client can send: a session cookie or a token header.
Credentials ==
    [kind : {"session"}, phone : DOMAIN user]
    \cup [kind : {"token"}, key : 1..MaxTokenKeys]

\* request.user.auth_token.delete() that leaves the row in place.
TokenDeleteKept(u) == token

\* request.user.auth_token.delete()
TokenDelete(u) == [token EXCEPT ![u] = NoToken]

\* A handler that lets the exception through.
LogoutSwallowsNothing(exception) == FALSE

\* try: ... except: pass around the deletion of the token.
LogoutSwallows(exception) == TRUE

\* logout_view: IsAuthenticated turns an unauthenticated request away before
\* the view runs; request.user.auth_token raises when the user has no token
\* row; django.contrib.auth.logout flushes the session of the request.
Logout(credential) ==
    LET u == RequestUser(credential) IN
    IF u = NoUser
    THEN /\ resp' = [op |-> "logout", status |-> 401, errors |-> {"not_authenticated"},
                     credential |-> credential, user |-> NoUser,
                     swallowed |-> FALSE]
         /\ UNCHANGED <<requestVars, companyVars, accountVars, categoryVars, productVars, orderVars>>
    ELSE IF token[u] = NoToken /\ ~LogoutSwallows("RelatedObjectDoesNotExist")
    THEN /\ resp' = [op |-> "logout", status |-> 500, errors |-> {"server_error"},
                     credential |-> credential, user |-> u,
                     swallowed |-> FALSE]
         /\ UNCHANGED <<requestVars, companyVars, accountVars, categoryVars, productVars, orderVars>>
    ELSE /\ token' = TokenDelete(u)
         /\ session' = IF credential.kind = "session" THEN session \ {u}
                       ELSE session
         /\ resp' = [op |-> "logout", status |-> 200, errors |-> {},
                     credential |-> credential, user |-> u,
                     swallowed |-> (token[u] = NoToken)]
         /\ UNCHANGED <<requestVars, companyVars, user, nextUserId, nextTokenKey, categoryVars,
                        productVars, orderVars>>

\* UserProfileSerializer.Meta.fields and read_only_fields.
ProfileFields ==
    {"id", "phone_number", "first_name", "last_name", "location",
     "is_verified", "date_joined"}

ReadOnlyFields == {"id", "phone_number", "is_verified", "date_joined"}

\* A field the payload does not carry holds "absent" (-1 for a number).
SentFields(payload) ==
    {f \in ProfileFields :
        payload[f] # (IF f \in {"id", "date_joined"} THEN -1 ELSE "absent")}

\* A serializer that declares no read-only field.
WritableFieldsAll(payload) == SentFields(payload)

\* The fields of the payload that reach validated_data: DRF leaves a
\* read-only field out of the writable fields and ignores its input.
WritableFields(payload) == SentFields(payload) \ ReadOnlyFields

\* UserProfileSerializer.is_valid(partial=True): first_name and last_name
\* are CharFields of the model without blank=True; location has blank=True.
ProfileErrors(payload) ==
    (IF "first_name" \in WritableFields(payload) /\ payload.first_name = ""
     THEN {"first_name_blank"} ELSE {})
    \cup (IF "last_name" \in WritableFields(payload) /\ payload.last_name = ""
          THEN {"last_name_blank"} ELSE {})

\* An update that takes is_verified from the payload as well.
ProfileUpdatedWithVerified(row, payload) ==
    LET applied == WritableFields(payload) IN
    [row EXCEPT
       !.first_name = IF "first_name" \in applied THEN payload.first_name ELSE @,
       !.last_name = IF "last_name" \in applied THEN payload.last_name ELSE @,
       !.location = IF "location" \in applied THEN payload.location ELSE @,
       !.is_verified = IF "is_verified" \in SentFields(payload)
                       THEN payload.is_verified = "true" ELSE @]

\* ModelSerializer.update: setattr for every entry of validated_data; the
\* phone number is the key of the row.
ProfileUpdated(row, payload) ==
    LET applied == WritableFields(payload) IN
    [row EXCEPT
       !.first_name = IF "first_name" \in applied THEN payload.first_name ELSE @,
       !.last_name = IF "last_name" \in applied THEN payload.last_name ELSE @,
       !.location = IF "location" \in applied THEN payload.location ELSE @,
       !.is_verified = IF "is_verified" \in applied
                       THEN payload.is_verified = "true" ELSE @,
       !.id = IF "id" \in applied THEN payload.id ELSE @,
       !.date_joined = IF "date_joined" \in applied THEN payload.date_joined ELSE @]

\* profile_view, GET
ProfileGet(credential) ==
    LET u == RequestUser(credential) IN
    /\ resp' = IF u = NoUser
               THEN [op |-> "profile_get", status |-> 401,
                     errors |-> {"not_authenticated"},
                     credential |-> credential, user |-> NoUser]
               ELSE [op |-> "profile_get", status |-> 200, errors |-> {},
                     credential |-> credential, user |-> u]
    /\ UNCHANGED <<requestVars, companyVars, accountVars, categoryVars, productVars, orderVars>>

\* profile_view, PUT
ProfileUpdate(credential, payload) ==
    LET u == RequestUser(credential)
        errors == ProfileErrors(payload)
    IN  IF u = NoUser
        THEN /\ resp' = [op |-> "profile_update", status |-> 401,
                         errors |-> {"not_authenticated"},
                         credential |-> credential, user |-> NoUser,
                         payload |-> payload]
             /\ UNCHANGED <<requestVars, companyVars, accountVars, categoryVars, productVars, orderVars>>
        ELSE IF errors # {}
        THEN /\ resp' = [op |-> "profile_update", status |-> 400,
                         errors |-> errors, credential |-> credential,
                         user |-> u, payload |-> payload]
             /\ UNCHANGED <<requestVars, companyVars, accountVars, categoryVars, productVars, orderVars>>
        ELSE /\ user' = [user EXCEPT ![u] = ProfileUpdated(user[u], payload)]
             /\ resp' = [op |-> "profile_update", status |-> 200,
                         errors |-> {}, credential |-> credential,
                         user |-> u, payload |-> payload]
             /\ UNCHANGED <<requestVars, companyVars, nextUserId, token, nextTokenKey, session,
                            categoryVars, productVars, orderVars>>

\* CustomUserAdmin: the change form of a user edits is_active.
AdminSetUserActive(phone, active) ==
    /\ phone \in DOMAIN user
    /\ user' = [user EXCEPT ![phone].is_active = active]
    /\ resp' = [op |-> "admin_user", status |-> 200, errors |-> {}]
    /\ UNCHANGED <<requestVars, companyVars, nextUserId, token, nextTokenKey, session, categoryVars,
                   productVars, orderVars>>

(***************************************************************************)
(* Category tree                                                           *)
(***************************************************************************)
\* Category.parent is a nullable foreign key: NoCategory is NULL.
NoCategory == 0

\* Category.company is a nullable foreign key: NoCompany is NULL.  No
\* product has a company: models.py gives Product no company column and
\* neither ProductCreateUpdateSerializer nor ProductAdmin sets one, while the
\* views filter on product.company_id.
NoCompany == 0

CompanyIds == DOMAIN company

\* attrs.get('parent') of a partial update that does not carry the field.
Absent == -1

CategoryIds == DOMAIN category

\* The ids a request may name as `parent`: PrimaryKeyRelatedField accepts
\* only the pk of a stored category, or null.
ParentChoices == CategoryIds \cup {NoCategory}

\* The walk of CategoryCreateSerializer.validate, lines 104-108: from
\* `current_parent` upwards until the instance is met ("circular") or the
\* chain ends ("none").  On a chain that loops without meeting the instance
\* the while loop of the code never ends ("diverges").
RECURSIVE WalkParents(_, _, _)
WalkParents(current_parent, instance, seen) ==
    IF current_parent = NoCategory THEN "none"
    ELSE IF current_parent = instance THEN "circular"
    ELSE IF current_parent \in seen THEN "diverges"
    ELSE WalkParents(category[current_parent].parent, instance,
                     seen \cup {current_parent})

\* validate without the walk over the ancestors of the proposed parent.
ValidateSelfOnly(instance, parent) ==
    IF parent \notin {NoCategory, Absent} /\ instance # NoCategory
    THEN IF parent = instance THEN "self_parent" ELSE "none"
    ELSE "none"

\* validate looking one level up only: the parent of the proposed parent.
ValidateOneLevel(instance, parent) ==
    IF parent \notin {NoCategory, Absent} /\ instance # NoCategory
    THEN IF parent = instance THEN "self_parent"
         ELSE IF category[parent].parent = instance THEN "circular"
         ELSE "none"
    ELSE "none"

\* validate without the test for the instance itself.
ValidateNoSelfTest(instance, parent) ==
    IF parent \notin {NoCategory, Absent} /\ instance # NoCategory
    THEN WalkParents(category[parent].parent, instance, {})
    ELSE "none"

\* validate refusing every parent that has a parent of its own.
ValidateRootParentsOnly(instance, parent) ==
    IF parent \notin {NoCategory, Absent} /\ instance # NoCategory
    THEN IF parent = instance THEN "self_parent"
         ELSE IF category[parent].parent # NoCategory THEN "circular"
         ELSE "none"
    ELSE "none"

\* CategoryCreateSerializer.validate: `instance` is the category being
\* updated (NoCategory on create), `parent` is attrs.get('parent') (a
\* stored category, NoCategory for null, Absent when not sent).
\* The result is the ValidationError raised, or "none".
Validate(instance, parent) ==
    IF parent \notin {NoCategory, Absent} /\ instance # NoCategory
    THEN IF parent = instance THEN "self_parent"
         ELSE WalkParents(category[parent].parent, instance, {})
    ELSE "none"

\* CategoryCreateSerializer, create: is_valid, then save (ModelSerializer.create).
CategoryCreate(parent, is_active) ==
    LET error == Validate(NoCategory, parent) IN
    /\ nextCategoryId <= MaxCategories
    /\ parent \in ParentChoices
    /\ error # "diverges"
    /\ IF error = "none"
       THEN /\ category' = (nextCategoryId :>
                               [parent |-> parent, is_active |-> is_active,
                                company |-> NoCompany])
                           @@ category
            /\ nextCategoryId' = nextCategoryId + 1
            /\ resp' = [op |-> "category_create", status |-> 201,
                        error |-> "none", target |-> nextCategoryId,
                        parent |-> parent]
       ELSE /\ resp' = [op |-> "category_create", status |-> 400,
                        error |-> error, target |-> NoCategory,
                        parent |-> parent]
            /\ UNCHANGED categoryVars
    /\ UNCHANGED <<requestVars, companyVars, accountVars, productVars, orderVars>>

\* CategoryCreateSerializer, update of `instance` (ModelSerializer.update
\* sets exactly the validated fields that were sent, then saves).
\* is_active is "absent", "true" or "false".
CategoryUpdate(instance, parent, is_active) ==
    LET error == Validate(instance, parent) IN
    /\ instance \in CategoryIds
    /\ parent \in ParentChoices \cup {Absent}
    /\ error # "diverges"
    /\ IF error = "none"
       THEN /\ category' =
                 [category EXCEPT
                    ![instance] =
                       [parent |-> IF parent = Absent THEN @.parent ELSE parent,
                        is_active |-> IF is_active = "absent" THEN @.is_active
                                      ELSE is_active = "true",
                        company |-> @.company]]
            /\ resp' = [op |-> "category_update", status |-> 200,
                        error |-> "none", target |-> instance,
                        parent |-> parent]
       ELSE /\ category' = category
            /\ resp' = [op |-> "category_update", status |-> 400,
                        error |-> error, target |-> instance,
                        parent |-> parent]
    /\ UNCHANGED <<requestVars, companyVars, nextCategoryId, accountVars, productVars, orderVars>>

\* The same update served by worker w, first step: serializer.is_valid()
\* runs validate on the rows as they are now; no row is locked and no
\* transaction is open.
CategoryUpdateValidate(w, instance, parent) ==
    LET error == Validate(instance, parent) IN
    /\ updating[w] = Idle
    /\ instance \in CategoryIds
    /\ parent \in ParentChoices
    /\ error # "diverges"
    /\ IF error = "none"
       THEN /\ updating' = [updating EXCEPT ![w] =
                               [pc |-> "validated", instance |-> instance,
                                parent |-> parent]]
            /\ UNCHANGED resp
       ELSE /\ resp' = [op |-> "category_update", status |-> 400,
                        error |-> error, target |-> instance,
                        parent |-> parent]
            /\ UNCHANGED updating
    /\ UNCHANGED <<creating, companyVars, categoryVars, accountVars,
                   productVars, orderVars>>

\* Second step of worker w: serializer.save() writes the validated parent
\* to the row, whatever the other rows have become since the validation.
CategoryUpdateSave(w) ==
    /\ updating[w].pc = "validated"
    /\ category' = [category EXCEPT
                       ![updating[w].instance].parent = updating[w].parent]
    /\ resp' = [op |-> "category_update", status |-> 200, error |-> "none",
                target |-> updating[w].instance,
                parent |-> updating[w].parent]
    /\ updating' = [updating EXCEPT ![w] = Idle]
    /\ UNCHANGED <<creating, companyVars, nextCategoryId, accountVars,
                   productVars, orderVars>>

(***************************************************************************)
(* Product catalog: the stored rows and the operations that write them     *)
(***************************************************************************)
NoProduct == 0

ProductIds == DOMAIN product

\* validate_seller_code that lets every code through.
ValidateSellerCodeNoCheck(instance, value) == "none"

\* ProductCreateUpdateSerializer.validate_seller_code: `instance` is the
\* product being updated (NoProduct on create).
ValidateSellerCode(instance, value) ==
    IF instance # NoProduct /\ product[instance].seller_code = value
    THEN "none"
    ELSE IF \E p \in ProductIds : product[p].seller_code = value
         THEN "seller_code_exists"
         ELSE "none"

\* A seller_code column without the unique constraint.
SellerCodeNotConstrained(instance, value) == TRUE

\* Product.seller_code is unique=True: the store refuses a row whose code is
\* that of another row (IntegrityError).
SellerCodeUnique(instance, value) ==
    ~\E p \in ProductIds \ {instance} : product[p].seller_code = value

\* ProductCreateUpdateSerializer.create, by the authenticated `seller`.
ProductCreate(seller, seller_code, categoryId, price, brand, is_featured) ==
    LET error == ValidateSellerCode(NoProduct, seller_code)
        id == nextProductId
        reply(status, err, target) ==
            [op |-> "product_create", status |-> status, error |-> err,
             target |-> target, seller_code |-> seller_code]
    IN
    /\ nextProductId <= MaxProducts
    /\ seller \in DOMAIN user
    /\ categoryId \in CategoryIds
    /\ IF error # "none"
       THEN /\ resp' = reply(400, error, NoProduct)
            /\ UNCHANGED productVars
       ELSE IF ~SellerCodeUnique(NoProduct, seller_code)
       THEN /\ resp' = reply(500, "integrity_error", NoProduct)
            /\ UNCHANGED productVars
       ELSE /\ product' = (id :> [seller_code |-> seller_code,
                                  category |-> categoryId,
                                  seller |-> seller,
                                  company |-> NoCompany,
                                  price |-> price,
                                  in_stock |-> TRUE,
                                  brand |-> brand,
                                  is_active |-> TRUE,
                                  is_featured |-> is_featured,
                                  created_at |-> id]) @@ product
            /\ nextProductId' = nextProductId + 1
            /\ resp' = reply(201, "none", id)
    /\ UNCHANGED <<requestVars, companyVars, accountVars, categoryVars, orderVars>>

\* The same creation served by worker w, first step: is_valid() runs
\* validate_seller_code on the rows as they are now.
ProductCreateValidate(w, seller, seller_code, categoryId, price, brand, is_featured) ==
    LET error == ValidateSellerCode(NoProduct, seller_code) IN
    /\ creating[w] = Idle
    /\ seller \in DOMAIN user
    /\ categoryId \in CategoryIds
    /\ IF error # "none"
       THEN /\ resp' = [op |-> "product_create", status |-> 400,
                        error |-> error, target |-> NoProduct,
                        seller_code |-> seller_code]
            /\ UNCHANGED creating
       ELSE /\ creating' = [creating EXCEPT ![w] =
                               [pc |-> "validated", seller |-> seller,
                                seller_code |-> seller_code,
                                category |-> categoryId, price |-> price,
                                brand |-> brand,
                                is_featured |-> is_featured]]
            /\ UNCHANGED resp
    /\ UNCHANGED <<updating, companyVars, accountVars, categoryVars,
                   productVars, orderVars>>

\* Second step of worker w: serializer.save() inserts the row; the unique
\* seller_code column refuses a code stored since the validation.
ProductCreateSave(w) ==
    LET row == creating[w]
        id == nextProductId
        reply(status, err, target) ==
            [op |-> "product_create", status |-> status, error |-> err,
             target |-> target, seller_code |-> row.seller_code]
    IN
    /\ row.pc = "validated"
    /\ nextProductId <= MaxProducts
    /\ IF ~SellerCodeUnique(NoProduct, row.seller_code)
       THEN /\ resp' = reply(500, "integrity_error", NoProduct)
            /\ UNCHANGED productVars
       ELSE /\ product' = (id :> [seller_code |-> row.seller_code,
                                  category |-> row.category,
                                  seller |-> row.seller,
                                  company |-> NoCompany,
                                  price |-> row.price,
                                  in_stock |-> TRUE,
                                  brand |-> row.brand,
                                  is_active |-> TRUE,
                                  is_featured |-> row.is_featured,
                                  created_at |-> id]) @@ product
            /\ nextProductId' = nextProductId + 1
            /\ resp' = reply(201, "none", id)
    /\ creating' = [creating EXCEPT ![w] = Idle]
    /\ UNCHANGED <<updating, companyVars, accountVars, categoryVars, orderVars>>

\* ProductCreateUpdateSerializer, update of `instance` with seller_code and
\* price sent.
ProductUpdate(instance, seller_code, price) ==
    LET error == ValidateSellerCode(instance, seller_code)
        reply(status, err) ==
            [op |-> "product_update", status |-> status, error |-> err,
             target |-> instance, seller_code |-> seller_code]
    IN
    /\ instance \in ProductIds
    /\ IF error # "none"
       THEN /\ resp' = reply(400, error)
            /\ product' = product
       ELSE IF ~SellerCodeUnique(instance, seller_code)
       THEN /\ resp' = reply(500, "integrity_error")
            /\ product' = product
       ELSE /\ product' = [product EXCEPT ![instance].seller_code = seller_code,
                                          ![instance].price = price]
            /\ resp' = reply(200, "none")
    /\ UNCHANGED <<requestVars, companyVars, nextProductId, accountVars, categoryVars, orderVars>>

\* ProductAdmin change list: list_editable = price, in_stock, is_active,
\* is_featured of one row.
AdminChangeProduct(p, price, in_stock, is_active, is_featured) ==
    /\ p \in ProductIds
    /\ product' = [product EXCEPT ![p].price = price,
                                  ![p].in_stock = in_stock,
                                  ![p].is_active = is_active,
                                  ![p].is_featured = is_featured]
    /\ resp' = [op |-> "admin_product", status |-> 200, errors |-> {}]
    /\ UNCHANGED <<requestVars, companyVars, nextProductId, accountVars, categoryVars, orderVars>>

(***************************************************************************)
(* Product catalog: the read endpoints.  `objects` is the set of rows of   *)
(* the products table a query runs over (Product.objects); a queryset is   *)
(* the set of rows it selects, a sliced one the sequence it returns.  The  *)
(* `queryset` of an endpoint is what its call of self.get_queryset() gave. *)
(***************************************************************************)
\* Query parameters of the product endpoints: Absent, "absent" and "" are a
\* parameter that was not sent.
ProductParams ==
    [category : CategoryIds \cup {Absent}, company : {Absent},
     min_price : {Absent, 10}, max_price : {Absent, 10},
     in_stock : {"absent", "true", "false"}, featured : {"absent", "true"},
     brand : {"", "bo"}]

NoParams ==
    [category |-> Absent, company |-> Absent, min_price |-> Absent,
     max_price |-> Absent, in_stock |-> "absent", featured |-> "absent",
     brand |-> ""]

\* field__icontains=query, on the texts and queries of the model.
IContains(text, query) ==
    <<text, query>> \in {<<"Bosch", "bo">>, <<"Bosch", "Bosch">>,
                         <<"SC-1", "sc">>, <<"SC-2", "sc">>}

\* queryset.order_by('-created_at'), also the Meta.ordering of Product.
RECURSIVE OrderByCreatedDesc(_)
OrderByCreatedDesc(qs) ==
    IF qs = {} THEN <<>>
    ELSE LET newest == CHOOSE p \in qs :
                 \A r \in qs : product[r].created_at <= product[p].created_at
         IN  <<newest>> \o OrderByCreatedDesc(qs \ {newest})

\* seq[:n]
Take(seq, n) == SubSeq(seq, 1, IF n < Len(seq) THEN n ELSE Len(seq))

Range(seq) == {seq[i] : i \in DOMAIN seq}

FeaturedLimit == 12
LatestDefaultLimit == 20
PopularLimit == 15
RelatedLimit == 8
PopularCategoriesDefaultLimit == 10

\* category.children.filter(is_active=True)
ActiveChildren(c) ==
    {d \in CategoryIds : category[d].parent = c /\ category[d].is_active}

\* The base queryset without its is_active filter.
ProductQuerySetAll(objects) == objects

\* ProductViewSet.queryset
ProductQuerySet(objects) == {p \in objects : product[p].is_active}

\* A lower price bound that leaves the bound itself out.
PriceGteStrict(price, bound) == price > bound

\* price__gte=min_price
PriceGte(price, bound) == price >= bound

\* price__lte=max_price
PriceLte(price, bound) == price <= bound

\* ProductViewSet.get_queryset
ProductGetQueryset(objects, q) ==
    LET base == ProductQuerySet(objects)
        byCompany ==
            IF q.company # Absent
            THEN {p \in base : product[p].company = q.company} ELSE base
        category_ids ==
            IF q.category \in CategoryIds
            THEN {q.category} \cup ActiveChildren(q.category)
            ELSE {q.category}
        byCategory ==
            IF q.category # Absent
            THEN {p \in byCompany : product[p].category \in category_ids}
            ELSE byCompany
        byMin ==
            IF q.min_price # Absent
            THEN {p \in byCategory : PriceGte(product[p].price, q.min_price)}
            ELSE byCategory
        byMax ==
            IF q.max_price # Absent
            THEN {p \in byMin : PriceLte(product[p].price, q.max_price)}
            ELSE byMin
        byStock ==
            IF q.in_stock = "true" THEN {p \in byMax : product[p].in_stock}
            ELSE IF q.in_stock = "false" THEN {p \in byMax : ~product[p].in_stock}
            ELSE byMax
        byFeatured ==
            IF q.featured = "true" THEN {p \in byStock : product[p].is_featured}
            ELSE byStock
    IN  IF q.brand # ""
        THEN {p \in byFeatured : IContains(product[p].brand, q.brand)}
        ELSE byFeatured

\* DjangoFilterBackend over filterset_fields, for the parameters that it and
\* get_queryset both read: category, company, in_stock and brand, each exact.
ProductFilterQueryset(qs, q) ==
    {p \in qs :
        /\ q.category # Absent => product[p].category = q.category
        /\ q.company # Absent => product[p].company = q.company
        /\ q.in_stock = "true" => product[p].in_stock
        /\ q.in_stock = "false" => ~product[p].in_stock
        /\ q.brand # "" => product[p].brand = q.brand}

\* ProductViewSet.list, in the default ordering.
ProductList(queryset, q) ==
    OrderByCreatedDesc(ProductFilterQueryset(queryset, q))

\* ProductViewSet.search with q=query and the optional category.
ProductSearch(queryset, q, query) ==
    LET found == {p \in queryset :
                     \/ IContains(product[p].brand, query)
                     \/ IContains(product[p].seller_code, query)}
    IN  IF q.category # Absent
        THEN {p \in found : product[p].category = q.category} ELSE found

\* ProductViewSet.featured
ProductFeatured(queryset) ==
    Take(OrderByCreatedDesc({p \in queryset : product[p].is_featured}),
         FeaturedLimit)

\* ProductViewSet.latest with a numeric limit.
ProductLatest(queryset, limit) ==
    Take(OrderByCreatedDesc(queryset), limit)

\* ProductViewSet.popular: order_by('?')[:15] returns PopularLimit of these
\* rows in a random order, all of them when there are no more.
ProductPopular(queryset) ==
    {p \in queryset : product[p].is_featured}

\* ProductViewSet.in_stock
ProductInStock(queryset) ==
    {p \in queryset : product[p].in_stock}

\* ProductViewSet.out_of_stock is not defined by views.py.

\* get_object of ProductViewSet: the row, when the filtered queryset has it.
ProductGetObject(queryset, q, id) ==
    IF id \in ProductFilterQueryset(queryset, q) THEN id ELSE NoProduct

\* A related listing that does not look at the brand.
ProductRelatedAnyBrand(queryset, q, id) ==
    IF ProductGetObject(queryset, q, id) = NoProduct THEN <<>>
    ELSE Take(OrderByCreatedDesc({p \in queryset :
                                     /\ product[p].category = product[id].category
                                     /\ p # id}), RelatedLimit)

\* ProductViewSet.related
ProductRelated(queryset, q, id) ==
    IF ProductGetObject(queryset, q, id) = NoProduct THEN <<>>
    ELSE LET same_category == {p \in queryset :
                                  /\ product[p].category = product[id].category
                                  /\ p # id}
             same_brand == {p \in same_category :
                               product[p].brand = product[id].brand}
         IN  Take(OrderByCreatedDesc(IF same_brand # {} THEN same_brand
                                     ELSE same_category), RelatedLimit)

\* The aggregates of ProductViewSet.filters.
ProductFilters(queryset) ==
    [prices |-> {product[p].price : p \in queryset},
     brands |-> {product[p].brand : p \in queryset} \ {""},
     categories |->
        [c \in {d \in {product[p].category : p \in queryset} :
                   category[d].is_active}
           |-> Cardinality({p \in queryset : product[p].category = c})],
     in_stock |-> Cardinality({p \in queryset : product[p].in_stock}),
     out_of_stock |-> Cardinality({p \in queryset : ~product[p].in_stock}),
     total_products |-> Cardinality(queryset)]

\* CompanyViewSet.products of company `c`, and CompanyListSerializer's
\* products_count.
CompanyProducts(objects, c) ==
    {p \in objects : product[p].company = c /\ product[p].is_active}

(***************************************************************************)
(* Category tree: the read endpoints.                                      *)
(***************************************************************************)
\* Query parameters of the category list.
CategoryParams ==
    [parent_only : {"absent", "true"}, parent : CategoryIds \cup {Absent},
     has_products : {"absent", "true"}]

NoCategoryParams ==
    [parent_only |-> "absent", parent |-> Absent, has_products |-> "absent"]

\* category.products.filter(is_active=True).count(), which is also the
\* annotation Count('products', filter=Q(products__is_active=True)).
ActiveProductCount(objects, c) ==
    Cardinality({p \in objects : product[p].category = c /\ product[p].is_active})

\* The total_products annotation of CategoryViewSet.get_queryset.
TotalProducts(objects, c) == ActiveProductCount(objects, c)

\* CategoryViewSet.get_queryset: the categories selected.
CategoryGetQueryset(objects, cq) ==
    {c \in CategoryIds :
        /\ category[c].is_active
        /\ cq.parent_only = "true" => category[c].parent = NoCategory
        /\ cq.parent # Absent => category[c].parent = cq.parent
        /\ cq.has_products = "true" =>
              \E p \in objects : product[p].category = c}

\* CategoryListSerializer.get_product_count
ListProductCount(objects, c, annotated) ==
    IF annotated THEN TotalProducts(objects, c)
    ELSE ActiveProductCount(objects, c)

\* CategorySerializer.get_product_count
DetailProductCount(objects, c, annotated) ==
    IF annotated THEN TotalProducts(objects, c)
    ELSE LET direct_count == ActiveProductCount(objects, c)
             child_count(d) == ActiveProductCount(objects, d)
             RECURSIVE Sum(_)
             Sum(ds) == IF ds = {} THEN 0
                        ELSE LET d == CHOOSE x \in ds : TRUE
                             IN  child_count(d) + Sum(ds \ {d})
         IN  direct_count + Sum(ActiveChildren(c))

\* CategoryViewSet.list: category -> product_count.
CategoryList(objects, cq) ==
    [c \in CategoryGetQueryset(objects, cq) |-> ListProductCount(objects, c, TRUE)]

\* CategoryViewSet.retrieve of category `id` (an empty function: 404):
\* product_count and the children with their counts.
CategoryRetrieve(objects, id) ==
    [c \in CategoryGetQueryset(objects, NoCategoryParams) \cap {id} |->
        [product_count |-> DetailProductCount(objects, c, TRUE),
         children |-> [d \in ActiveChildren(c) |->
                          ListProductCount(objects, d, FALSE)]]]

\* A child of the tree serialized with the detailed CategorySerializer,
\* which carries the children of the child.
TreeChildDetailed(objects, d) ==
    [id |-> d, parent |-> category[d].parent,
     product_count |-> ListProductCount(objects, d, TRUE),
     children |-> ActiveChildren(d)]

\* A child of the tree, serialized with CategoryListSerializer: the fields
\* of its Meta.fields that the model keeps.
TreeChild(objects, d) ==
    [id |-> d, parent |-> category[d].parent,
     product_count |-> ListProductCount(objects, d, TRUE)]

\* CategoryViewSet.tree: the entries of 'tree', by the id of the parent.
CategoryTree(objects) ==
    [c \in {r \in CategoryGetQueryset(objects, NoCategoryParams) :
               category[r].parent = NoCategory} |->
        [product_count |-> DetailProductCount(objects, c, TRUE),
         children |-> [d \in ActiveChildren(c) |-> TreeChild(objects, d)],
         total_children |-> Cardinality(ActiveChildren(c))]]

\* CategoryViewSet.subcategories of category `id`.
CategorySubcategories(objects, id) ==
    IF id \notin CategoryGetQueryset(objects, NoCategoryParams) THEN <<>>
    ELSE [d \in ActiveChildren(id) |-> ListProductCount(objects, d, TRUE)]

\* CategoryViewSet.popular, before the ordering and the slice: the
\* categories with their counts.
CategoryPopular(objects) ==
    [c \in {d \in CategoryGetQueryset(objects, NoCategoryParams) :
               TotalProducts(objects, d) > 0} |->
        ListProductCount(objects, c, TRUE)]

\* CategoryViewSet.empty
CategoryEmpty(objects) ==
    [c \in {d \in CategoryGetQueryset(objects, NoCategoryParams) :
               TotalProducts(objects, d) = 0} |->
        ListProductCount(objects, c, TRUE)]

\* A products listing that takes the children whether active or not.
CategoryProductsAllChildren(objects, id, include_subcategories) ==
    IF id \notin CategoryGetQueryset(objects, NoCategoryParams) THEN {}
    ELSE IF include_subcategories
    THEN LET category_ids ==
                 {id} \cup {d \in CategoryIds : category[d].parent = id}
         IN  {p \in objects : /\ product[p].category \in category_ids
                               /\ product[p].is_active}
    ELSE {p \in objects : product[p].category = id /\ product[p].is_active}

\* CategoryViewSet.products of category `id`, before ordering and limit.
CategoryProducts(objects, id, include_subcategories) ==
    IF id \notin CategoryGetQueryset(objects, NoCategoryParams) THEN {}
    ELSE IF include_subcategories
    THEN LET category_ids == {id} \cup ActiveChildren(id)
         IN  {p \in objects : /\ product[p].category \in category_ids
                               /\ product[p].is_active}
    ELSE {p \in objects : product[p].category = id /\ product[p].is_active}

\* CategoryViewSet.stats of category `id`.
CategoryStats(objects, id) ==
    IF id \notin CategoryGetQueryset(objects, NoCategoryParams) THEN <<>>
    ELSE LET direct_products ==
                 {p \in objects : product[p].category = id /\ product[p].is_active}
         IN  [total |-> Cardinality(direct_products),
              in_stock |-> Cardinality({p \in direct_products : product[p].in_stock}),
              out_of_stock |->
                  Cardinality({p \in direct_products : ~product[p].in_stock}),
              subcategories_count |-> Cardinality(ActiveChildren(id)),
              prices |-> {product[p].price : p \in direct_products},
              brands |-> {product[p].brand : p \in direct_products} \ {""}]

\* The statistics of CategoryViewSet.filters.
CategoryFilters(objects) ==
    LET queryset == CategoryGetQueryset(objects, NoCategoryParams) IN
    [total_categories |-> Cardinality(queryset),
     root_categories |->
        Cardinality({c \in queryset : category[c].parent = NoCategory}),
     categories_with_products |->
        Cardinality({c \in queryset : TotalProducts(objects, c) > 0}),
     empty_categories |->
        Cardinality({c \in queryset : TotalProducts(objects, c) = 0})]

\* The product_count of CategoryViewSet.search_suggestions for category c.
CategorySuggestionCount(objects, c) == ActiveProductCount(objects, c)

\* A trail that grows at its end.
BreadcrumbsAppend(breadcrumbs, current) == Append(breadcrumbs, current)

\* breadcrumbs.insert(0, {...})
BreadcrumbsInsert(breadcrumbs, current) == <<current>> \o breadcrumbs

\* The while loop of get_breadcrumbs: current = current.parent until None.
RECURSIVE BreadcrumbsWalk(_, _)
BreadcrumbsWalk(current, breadcrumbs) ==
    IF current = NoCategory THEN breadcrumbs
    ELSE BreadcrumbsWalk(category[current].parent,
                         BreadcrumbsInsert(breadcrumbs, current))

\* CategorySerializer.get_breadcrumbs: the ids of the trail.
GetBreadcrumbs(obj) == BreadcrumbsWalk(obj, <<>>)

(***************************************************************************)
(* The `limit` query parameter of popular categories, category products    *)
(* and latest products.                                                    *)
(***************************************************************************)
\* The texts a request may send as limit; "absent" is a request without it.
LimitTexts == {"absent", "1", "2", "abc"}

\* int(text) raises ValueError for the other texts.
IsNumeric(text) == text \in {"1", "2"}

IntOf(text) == IF text = "1" THEN 1 ELSE 2

\* order_by('-total_products'); rows with equal counts by id.
RECURSIVE OrderByTotalProductsDesc(_, _)
OrderByTotalProductsDesc(objects, cs) ==
    IF cs = {} THEN <<>>
    ELSE LET first == CHOOSE c \in cs :
                 \A d \in cs :
                    \/ TotalProducts(objects, d) < TotalProducts(objects, c)
                    \/ /\ TotalProducts(objects, d) = TotalProducts(objects, c)
                       /\ c <= d
         IN  <<first>> \o OrderByTotalProductsDesc(objects, cs \ {first})

\* CategoryViewSet.popular with ?limit=text: int() is applied to the
\* parameter with no handler around it.
CategoryPopularResponse(objects, text) ==
    LET ordered == OrderByTotalProductsDesc(objects, DOMAIN CategoryPopular(objects))
    IN  IF text = "absent"
        THEN [status |-> 200,
              results |-> Take(ordered, PopularCategoriesDefaultLimit)]
        ELSE IF ~IsNumeric(text)
        THEN [status |-> 500, results |-> <<>>]
        ELSE [status |-> 200, results |-> Take(ordered, IntOf(text))]

\* Values of ?ordering: two of the accepted list and one outside it.
ProductOrderings == {"-created_at", "created_at", "popular"}

\* order_by('created_at')
RECURSIVE OrderByCreatedAsc(_)
OrderByCreatedAsc(qs) ==
    IF qs = {} THEN <<>>
    ELSE LET oldest == CHOOSE p \in qs :
                 \A r \in qs : product[p].created_at <= product[r].created_at
         IN  <<oldest>> \o OrderByCreatedAsc(qs \ {oldest})

\* products.order_by(ordering) for an accepted ordering; any other value
\* is left out and the rows come in Product.Meta.ordering, -created_at.
OrderProducts(qs, ordering) ==
    IF ordering = "created_at" THEN OrderByCreatedAsc(qs)
    ELSE OrderByCreatedDesc(qs)

\* CategoryViewSet.products with ?ordering and ?limit=text: the rows are
\* ordered, then sliced; the ValueError of int() is caught and the limit
\* dropped.
CategoryProductsOrdered(objects, id, include_subcategories, ordering, text) ==
    IF id \notin CategoryGetQueryset(objects, NoCategoryParams)
    THEN [status |-> 404, results |-> <<>>]
    ELSE LET ordered ==
                 OrderProducts(
                     CategoryProducts(objects, id, include_subcategories),
                     ordering)
         IN  IF text = "absent" \/ ~IsNumeric(text)
             THEN [status |-> 200, results |-> ordered]
             ELSE [status |-> 200, results |-> Take(ordered, IntOf(text))]

\* CategoryViewSet.products with ?limit=text, in the default ordering.
CategoryProductsResponse(objects, id, include_subcategories, text) ==
    CategoryProductsOrdered(objects, id, include_subcategories, "-created_at",
                            text)

\* ProductViewSet.latest with ?limit=text: int() is applied to the
\* parameter with no handler around it.
ProductLatestResponse(queryset, text) ==
    IF text = "absent"
    THEN [status |-> 200, results |-> ProductLatest(queryset, LatestDefaultLimit)]
    ELSE IF ~IsNumeric(text)
    THEN [status |-> 500, results |-> <<>>]
    ELSE [status |-> 200, results |-> ProductLatest(queryset, IntOf(text))]

(***************************************************************************)
(* Order ledger.  No view or serializer writes orders: rows are written    *)
(* through Order.save and the admin (OrderAdmin with its OrderItemInline,  *)
(* ProductAdmin for the products the items refer to).                      *)
(***************************************************************************)
OrderIds == DOMAIN order

OrderItemIds == DOMAIN orderItem

\* STATUS_CHOICES with no way to cancel.
OrderStatusesNoCancelled ==
    {"pending", "confirmed", "processing", "shipped", "delivered"}

\* STATUS_CHOICES
OrderStatuses ==
    {"pending", "confirmed", "processing", "shipped", "delivered", "cancelled"}

\* status = CharField(..., default='pending')
StatusDefault == "pending"

\* Values uuid.uuid4().hex may give, one character per element; the first
\* two agree on their first eight characters.
UuidHexA ==
    <<"1","a","2","b","3","c","4","d","0","0","0","0","4","0","0","0",
      "8","0","0","0","0","0","0","0","0","0","0","0","0","0","0","1">>

UuidHexB ==
    <<"1","a","2","b","3","c","4","d","f","f","f","f","4","f","f","f",
      "b","f","f","f","f","f","f","f","f","f","f","f","f","f","f","2">>

UuidHexC ==
    <<"9","f","8","e","7","d","6","c","0","1","2","3","4","5","6","7",
      "8","9","a","b","c","d","e","f","0","1","2","3","4","5","6","7">>

UuidHexes == {UuidHexA, UuidHexB, UuidHexC}

\* str.upper, one character
UpperChar(c) ==
    CASE c = "a" -> "A" [] c = "b" -> "B" [] c = "c" -> "C"
      [] c = "d" -> "D" [] c = "e" -> "E" [] c = "f" -> "F"
      [] OTHER -> c

\* str.upper
Upper(str) == [k \in 1..Len(str) |-> UpperChar(str[k])]

\* An order number that keeps the case of uuid4().hex.
GenerateOrderNumberLower(hex) == <<"O", "R", "D", "-">> \o SubSeq(hex, 1, 8)

\* f"ORD-{uuid.uuid4().hex[:8].upper()}"
GenerateOrderNumber(hex) == <<"O", "R", "D", "-">> \o Upper(SubSeq(hex, 1, 8))

\* Order.save: `if not self.order_number:` generate one, else keep it.
SaveOrderNumber(order_number, hex) ==
    IF order_number = <<>> THEN GenerateOrderNumber(hex) ELSE order_number

\* order.items
ItemsOf(o) == {i \in OrderItemIds : orderItem[i].order = o}

\* A total_price that reads the current price of the product.
TotalPriceFromProduct(i) ==
    orderItem[i].quantity * product[orderItem[i].product].price

\* OrderItem.total_price
TotalPrice(i) == orderItem[i].quantity * orderItem[i].price

\* Order.save of a new order: `status` is the choice of the admin add form,
\* or "absent" for a caller that leaves the field to its default; the form
\* refuses a value outside STATUS_CHOICES; order_number is read-only in the
\* form, so the order reaches save without one and `hex` is what uuid4
\* gives; the unique order_number column refuses a number already stored.
AdminAddOrder(owner, hex, status, subtotal, delivery_fee, total_amount) ==
    /\ owner \in DOMAIN user
    /\ LET order_number == SaveOrderNumber(<<>>, hex) IN
       IF status # "absent" /\ status \notin OrderStatuses
       THEN /\ resp' = [op |-> "admin_order_add", status |-> 200,
                        errors |-> {"invalid_choice"}, sent |-> status]
            /\ UNCHANGED orderVars
       ELSE IF \E o \in OrderIds : order[o].order_number = order_number
       THEN /\ resp' = [op |-> "admin_order_add", status |-> 500,
                        errors |-> {"integrity_error"}, sent |-> status]
            /\ UNCHANGED orderVars
       ELSE /\ nextOrderId <= MaxOrders
            /\ order' = (nextOrderId :>
                            [user |-> owner, order_number |-> order_number,
                             status |-> IF status = "absent"
                                        THEN StatusDefault ELSE status,
                             subtotal |-> subtotal,
                             delivery_fee |-> delivery_fee,
                             total_amount |-> total_amount]) @@ order
            /\ nextOrderId' = nextOrderId + 1
            /\ resp' = [op |-> "admin_order_add", status |-> 200,
                        errors |-> {}, sent |-> status,
                        target |-> nextOrderId]
            /\ UNCHANGED <<requestVars, companyVars, orderItem, nextOrderItemId>>
    /\ UNCHANGED <<requestVars, companyVars, accountVars, categoryVars, productVars>>

\* Order.save of a stored order, from the admin change form or the
\* list_editable status column: the form refuses a value outside
\* STATUS_CHOICES and nothing looks at the status the order has; save keeps
\* the order_number the order has (`hex` is what uuid4 would give).
AdminChangeOrder(o, hex, status, subtotal, delivery_fee, total_amount) ==
    /\ o \in OrderIds
    /\ IF status \notin OrderStatuses
       THEN /\ resp' = [op |-> "admin_order_change", status |-> 200,
                        errors |-> {"invalid_choice"}, sent |-> status,
                        target |-> o, was |-> order[o].status]
            /\ UNCHANGED order
       ELSE /\ order' = [order EXCEPT
                            ![o].order_number =
                                SaveOrderNumber(order[o].order_number, hex),
                            ![o].status = status,
                            ![o].subtotal = subtotal,
                            ![o].delivery_fee = delivery_fee,
                            ![o].total_amount = total_amount]
            /\ resp' = [op |-> "admin_order_change", status |-> 200,
                        errors |-> {}, sent |-> status, target |-> o,
                        was |-> order[o].status]
    /\ UNCHANGED <<requestVars, companyVars, nextOrderId, orderItem, nextOrderItemId, accountVars,
                   categoryVars, productVars>>

\* OrderItemInline: a new item of order o.
AdminAddOrderItem(o, p, quantity, price) ==
    /\ nextOrderItemId <= MaxOrderItems
    /\ o \in OrderIds
    /\ p \in ProductIds
    /\ orderItem' = (nextOrderItemId :>
                        [order |-> o, product |-> p, quantity |-> quantity,
                         price |-> price]) @@ orderItem
    /\ nextOrderItemId' = nextOrderItemId + 1
    /\ resp' = [op |-> "admin_item_add", status |-> 200, errors |-> {}]
    /\ UNCHANGED <<requestVars, companyVars, order, nextOrderId, accountVars, categoryVars, productVars>>

\* OrderItemInline: quantity and price of a stored item.
AdminChangeOrderItem(i, quantity, price) ==
    /\ i \in OrderItemIds
    /\ orderItem' = [orderItem EXCEPT ![i].quantity = quantity,
                                      ![i].price = price]
    /\ resp' = [op |-> "admin_item_change", status |-> 200, errors |-> {}]
    /\ UNCHANGED <<requestVars, companyVars, order, nextOrderId, nextOrderItemId, accountVars,
                   categoryVars, productVars>>

\* OrderItemInline: the delete box of a stored item.
AdminDeleteOrderItem(i) ==
    /\ i \in OrderItemIds
    /\ orderItem' = [j \in OrderItemIds \ {i} |-> orderItem[j]]
    /\ resp' = [op |-> "admin_item_delete", status |-> 200, errors |-> {}]
    /\ UNCHANGED <<requestVars, companyVars, order, nextOrderId, nextOrderItemId, accountVars,
                   categoryVars, productVars>>

\* ProductAdmin's delete: OrderItem.product is on_delete=CASCADE, the items
\* of the product go with it.
AdminDeleteProduct(p) ==
    /\ p \in ProductIds
    /\ product' = [r \in ProductIds \ {p} |-> product[r]]
    /\ orderItem' = [j \in {i \in OrderItemIds : orderItem[i].product # p}
                       |-> orderItem[j]]
    /\ resp' = [op |-> "admin_product_delete", status |-> 200, errors |-> {}]
    /\ UNCHANGED <<requestVars, companyVars, nextProductId, order, nextOrderId, nextOrderItemId,
                   accountVars, categoryVars>>

(***************************************************************************)
(* Companies, and deletion through the admin.  Every foreign key of the    *)
(* models is on_delete=CASCADE: Category.parent, Category.company,         *)
(* Product.category, Product.seller, Order.user, OrderItem.order,          *)
(* OrderItem.product, and Token.user of rest_framework.authtoken.          *)
(***************************************************************************)
\* CompanyAdmin: a new company.
AdminAddCompany(is_active) ==
    /\ nextCompanyId <= MaxCompanies
    /\ company' = (nextCompanyId :> [is_active |-> is_active]) @@ company
    /\ nextCompanyId' = nextCompanyId + 1
    /\ resp' = [op |-> "admin_company_add", status |-> 200, errors |-> {}]
    /\ UNCHANGED <<requestVars, accountVars, categoryVars, productVars, orderVars>>

\* CategoryAdmin: the change form sets the company of a category.
AdminSetCategoryCompany(c, k) ==
    /\ c \in CategoryIds
    /\ k \in CompanyIds \cup {NoCompany}
    /\ category' = [category EXCEPT ![c].company = k]
    /\ resp' = [op |-> "admin_category_change", status |-> 200, errors |-> {}]
    /\ UNCHANGED <<requestVars, companyVars, nextCategoryId, accountVars, productVars,
                   orderVars>>

\* A cascade that stops at the children of the deleted categories.
CascadeCategoriesOneLevel(cs) ==
    cs \cup {d \in CategoryIds : category[d].parent \in cs}

\* The categories the deletion collector gathers from cs along
\* Category.parent: cs with the categories below them at every depth.
RECURSIVE CascadeCategories(_)
CascadeCategories(cs) ==
    LET below == {d \in CategoryIds : category[d].parent \in cs} IN
    IF below \subseteq cs THEN cs ELSE CascadeCategories(cs \cup below)

\* Model.delete(): the rows named are collected with every row that
\* refers to a collected row, and all of them are deleted; the call returns
\* the number of rows deleted of each model.
DeleteCascade(op, target, users, companies, categories, products, orders) ==
    LET cs == CascadeCategories(
                  categories
                  \cup {c \in CategoryIds : category[c].company \in companies})
        ps == products
              \cup {p \in ProductIds : \/ product[p].category \in cs
                                       \/ product[p].seller \in users}
        os == orders \cup {o \in OrderIds : order[o].user \in users}
        is == {i \in OrderItemIds : \/ orderItem[i].order \in os
                                    \/ orderItem[i].product \in ps}
    IN  /\ user' = [u \in DOMAIN user \ users |-> user[u]]
        /\ token' = [u \in DOMAIN token \ users |-> token[u]]
        /\ session' = session \ users
        /\ company' = [k \in CompanyIds \ companies |-> company[k]]
        /\ category' = [c \in CategoryIds \ cs |-> category[c]]
        /\ product' = [p \in ProductIds \ ps |-> product[p]]
        /\ order' = [o \in OrderIds \ os |-> order[o]]
        /\ orderItem' = [i \in OrderItemIds \ is |-> orderItem[i]]
        /\ resp' = [op |-> op, status |-> 200, errors |-> {}, target |-> target,
                    deleted |-> [categories |-> Cardinality(cs),
                                 products |-> Cardinality(ps),
                                 orders |-> Cardinality(os),
                                 items |-> Cardinality(is)]]
        /\ UNCHANGED <<requestVars, nextUserId, nextTokenKey, nextCompanyId,
                       nextCategoryId, nextProductId, nextOrderId,
                       nextOrderItemId>>

\* CustomUserAdmin: delete.
AdminDeleteUser(phone) ==
    /\ phone \in DOMAIN user
    /\ DeleteCascade("admin_user_delete", phone, {phone}, {}, {}, {}, {})

\* CompanyAdmin: delete.
AdminDeleteCompany(k) ==
    /\ k \in CompanyIds
    /\ DeleteCascade("admin_company_delete", k, {}, {k}, {}, {}, {})

\* CategoryAdmin: delete.
AdminDeleteCategory(c) ==
    /\ c \in CategoryIds
    /\ DeleteCascade("admin_category_delete", c, {}, {}, {c}, {}, {})

\* OrderAdmin: delete.
AdminDeleteOrder(o) ==
    /\ o \in OrderIds
    /\ DeleteCascade("admin_order_delete", o, {}, {}, {}, {}, {o})

(***************************************************************************)
(* Initial state: an empty store.                                          *)
(***************************************************************************)
Init ==
    /\ user = <<>>
    /\ nextUserId = 1
    /\ token = <<>>
    /\ nextTokenKey = 1
    /\ session = {}
    /\ company = <<>>
    /\ nextCompanyId = 1
    /\ category = <<>>
    /\ nextCategoryId = 1
    /\ product = <<>>
    /\ nextProductId = 1
    /\ order = <<>>
    /\ nextOrderId = 1
    /\ orderItem = <<>>
    /\ nextOrderItemId = 1
    /\ resp = [op |-> "none", status |-> 0, errors |-> {}]
    /\ updating = [w \in Workers |-> Idle]
    /\ creating = [w \in Workers |-> Idle]

NextAccounts ==
    \/ \E phone \in Phones, password, password_confirm \in Passwords :
          Register(phone, password, password_confirm)
    \/ \E phone \in Phones, password \in Passwords : Login(phone, password)
    \/ \E credential \in Credentials : Logout(credential)
    \/ \E phone \in Phones, active \in BOOLEAN : AdminSetUserActive(phone, active)

SpecAccounts == Init /\ [][NextAccounts]_vars

\* C9: register with password # password_confirm fails (400) and creates
\* no user and no credential; with matching passwords that pass the policy
\* and an unused phone number it creates exactly one user, keyed by that
\* phone number, and returns a credential for it (201); with a phone number
\* already registered it fails and creates nothing.
C9_Register ==
    [][resp'.op = "register" =>
         LET phone == resp'.phone
             password == resp'.password
             confirm == resp'.password_confirm
             nothingCreated == /\ resp'.status = 400
                               /\ resp'.token = NoToken
                               /\ user' = user
                               /\ token' = token
         IN  /\ password # confirm => nothingCreated
             /\ phone \in DOMAIN user => nothingCreated
             /\ (/\ password = confirm
                 /\ ValidatePassword(password)
                 /\ phone \notin DOMAIN user)
                => /\ resp'.status = 201
                   /\ DOMAIN user' = DOMAIN user \cup {phone}
                   /\ \A q \in DOMAIN user : user'[q] = user[q]
                   /\ CheckPassword(password, user'[phone].password)
                   /\ resp'.token # NoToken
                   /\ token'[phone] = resp'.token
                   /\ \A q \in DOMAIN token : token'[q] = token[q]
                   /\ \A q \in DOMAIN token : token[q] # resp'.token
      ]_vars

\* The registration of the example succeeded while another user exists.
C9_Witness ==
    /\ resp.op = "register" /\ resp.status = 201
    /\ resp.phone = "+998901234567" /\ resp.password = "P@ssw0rd1"
    /\ token[resp.phone] = resp.token
    /\ Cardinality(DOMAIN user) = 2

\* C10: login fails, and neither creates nor returns a credential, when the
\* phone/password pair matches no user or the matching user is inactive;
\* otherwise it returns the user's credential.
C10_Login ==
    [][resp'.op = "login" =>
         LET phone == resp'.phone
             matches == /\ phone \in DOMAIN user
                        /\ user[phone].password = MakePassword(resp'.password)
         IN  IF matches /\ user[phone].is_active
             THEN /\ resp'.status = 200
                  /\ resp'.token # NoToken
                  /\ resp'.token = token'[phone]
                  /\ token[phone] # NoToken => token'[phone] = token[phone]
             ELSE /\ resp'.status = 400
                  /\ resp'.token = NoToken
                  /\ token' = token
                  /\ nextTokenKey' = nextTokenKey
                  /\ session' = session
      ]_vars

\* A login with the right password was refused because the account is
\* inactive, and the user holds no credential.
C10_Witness ==
    /\ resp.op = "login" /\ resp.status = 400
    /\ resp.phone \in DOMAIN user
    /\ user[resp.phone].password = MakePassword(resp.password)
    /\ ~user[resp.phone].is_active
    /\ token[resp.phone] = NoToken

\* The account of a client over time: registration, login, the gated
\* profile and logout requests, and the admin switching the account off.
NoPayload ==
    [id |-> -1, phone_number |-> "absent", first_name |-> "absent",
     last_name |-> "absent", location |-> "absent",
     is_verified |-> "absent", date_joined |-> -1]

ProfilePayloads ==
    {[NoPayload EXCEPT !.first_name = "Vali"],
     [NoPayload EXCEPT !.first_name = ""],
     [NoPayload EXCEPT !.is_verified = "true"],
     [NoPayload EXCEPT !.first_name = "Vali", !.phone_number = "+998907654321"],
     [NoPayload EXCEPT !.id = 99],
     [NoPayload EXCEPT !.date_joined = 0]}

NextProfile ==
    \/ \E phone \in Phones : Register(phone, "P@ssw0rd1", "P@ssw0rd1")
    \/ \E phone \in Phones, password \in {"P@ssw0rd1", "Tr0ub4dor&3"} :
          Login(phone, password)
    \/ \E credential \in Credentials : Logout(credential)
    \/ \E credential \in Credentials : ProfileGet(credential)
    \/ \E credential \in Credentials, payload \in ProfilePayloads :
          ProfileUpdate(credential, payload)
    \/ \E phone \in Phones, active \in BOOLEAN : AdminSetUserActive(phone, active)

SpecProfile == Init /\ [][NextProfile]_vars

\* The token key k was issued and its row is gone.
Revoked(k) == k < nextTokenKey /\ \A p \in DOMAIN token : token[p] # k

GatedOps == {"logout", "profile_get", "profile_update"}

\* C11: a successful logout revokes the token of the user; a revoked token
\* stays revoked in every later state; every gated request (profile read,
\* profile update, logout) that presents a revoked token is answered 401 and
\* changes nothing; and a user gets a token again only from a later
\* registration or login, which returns a key never issued before.
C11_LoggedOutCredentialRejected ==
    [][/\ \A k \in 1..MaxTokenKeys : Revoked(k) => Revoked(k)'
       /\ \A k \in 1..MaxTokenKeys :
             (resp'.op = "logout" /\ resp'.status = 200
              /\ token[resp'.user] = k)
             => Revoked(k)'
       /\ (resp'.op \in GatedOps /\ resp'.credential.kind = "token"
           /\ Revoked(resp'.credential.key))
          => /\ resp'.status = 401
             /\ accountVars' = accountVars
       /\ \A p \in DOMAIN token' :
             (token'[p] # NoToken
              /\ (p \notin DOMAIN token \/ token[p] # token'[p]))
             => /\ resp'.op \in {"register", "login"}
                /\ resp'.token = token'[p]
                /\ token'[p] = nextTokenKey
                /\ \A k \in 1..MaxTokenKeys : Revoked(k) => token'[p] # k
      ]_vars

\* The only user logged out, logged in again, and a request with the token
\* of before the logout was turned away.
C11_Witness ==
    /\ resp.op \in {"profile_get", "profile_update"} /\ resp.status = 401
    /\ resp.credential.kind = "token" /\ Revoked(resp.credential.key)
    /\ Cardinality(DOMAIN user) = 1
    /\ \A p \in DOMAIN user :
          user[p].is_active /\ token[p] > resp.credential.key

\* C12 (as claimed): logout with a credential whose token was already
\* deleted is answered with success and no error and changes nothing stored.
C12_LogoutOfDeletedTokenSucceeds ==
    [][(resp'.op = "logout" /\ resp'.credential.kind = "token"
        /\ Revoked(resp'.credential.key))
       => /\ resp'.status = 200 /\ resp'.errors = {}
          /\ accountVars' = accountVars
      ]_vars

\* C12 (amended): logout by a caller who is authenticated by a session and
\* whose token row is already deleted is answered with success and no
\* error, leaves users and tokens as they were and ends that session only;
\* logout that presents an already deleted token is answered 401 and
\* changes nothing stored.
C12_LogoutWithoutToken ==
    [][resp'.op = "logout" =>
         LET credential == resp'.credential
             u == RequestUser(credential)
         IN  /\ (credential.kind = "token" /\ Revoked(credential.key))
                => /\ resp'.status = 401
                   /\ accountVars' = accountVars
             /\ (credential.kind = "session" /\ u # NoUser
                 /\ token[u] = NoToken)
                => /\ resp'.status = 200 /\ resp'.errors = {}
                   /\ user' = user /\ token' = token
                   /\ nextTokenKey' = nextTokenKey
                   /\ session' = session \ {u}
      ]_vars

\* A session logout went through although the token of the user was
\* already deleted.
C12_Witness ==
    /\ resp.op = "logout" /\ resp.status = 200
    /\ resp.credential.kind = "session" /\ resp.swallowed

\* C13 (as claimed): a profile update whose payload carries a read-only
\* field fails with a validation error.
C13_ReadOnlyFieldRejected ==
    [][(resp'.op = "profile_update" /\ resp'.user # NoUser
        /\ SentFields(resp'.payload) \cap ReadOnlyFields # {})
       => resp'.status = 400
      ]_vars

\* C13 (amended): a profile update whose payload carries a read-only field
\* (id, phone_number, is_verified, date_joined) is not rejected for it: the
\* field is ignored, the update succeeds unless a writable field is invalid,
\* and the stored id, phone number, verification flag and join date of
\* every user stay as they were.
C13_ReadOnlyFieldIgnored ==
    [][(resp'.op = "profile_update" /\ resp'.user # NoUser
        /\ SentFields(resp'.payload) \cap ReadOnlyFields # {})
       => /\ resp'.errors \subseteq {"first_name_blank"}
          /\ resp'.payload.first_name # "" => resp'.status = 200
          /\ DOMAIN user' = DOMAIN user
          /\ \A p \in DOMAIN user :
                /\ user'[p].id = user[p].id
                /\ user'[p].is_verified = user[p].is_verified
                /\ user'[p].date_joined = user[p].date_joined
                /\ p # resp'.user => user'[p] = user[p]
      ]_vars

\* An update that sent is_verified = true succeeded and the user is still
\* not verified.
C13_Witness ==
    /\ resp.op = "profile_update" /\ resp.status = 200
    /\ "is_verified" \in SentFields(resp.payload)
    /\ ~user[resp.user].is_verified

\* The catalog: one registered seller, categories that are created under a
\* parent and switched on and off, and products written through
\* ProductCreateUpdateSerializer and the admin change list.
SellerCodes == {"SC-1", "SC-2"}

Prices == {10, 50}

NextCatalog ==
    \/ Register("+998901234567", "P@ssw0rd1", "P@ssw0rd1")
    \/ \E parent \in ParentChoices :
          nextCategoryId < MaxCategories - 1 /\ CategoryCreate(parent, TRUE)
    \/ \E instance \in CategoryIds, is_active \in {"true", "false"} :
          CategoryUpdate(instance, Absent, is_active)
    \/ \E seller \in DOMAIN user, seller_code \in SellerCodes,
          categoryId \in CategoryIds, price \in Prices, is_featured \in BOOLEAN :
          /\ nextProductId <= MaxCatalogProducts
          /\ ProductCreate(seller, seller_code, categoryId, price, "Bosch", is_featured)
    \/ \E p \in ProductIds, price \in Prices,
          in_stock, is_active, is_featured \in BOOLEAN :
          AdminChangeProduct(p, price, in_stock, is_active, is_featured)

SpecCatalog == Init /\ [][NextCatalog]_vars

\* The writes of ProductCreateUpdateSerializer: two sellers, one category,
\* products created and updated with any of three seller codes.
NextProducts ==
    \/ \E phone \in Phones : Register(phone, "P@ssw0rd1", "P@ssw0rd1")
    \/ nextCategoryId = 1 /\ CategoryCreate(NoCategory, TRUE)
    \/ \E seller \in DOMAIN user, seller_code \in SellerCodes \cup {"SC-3"},
          categoryId \in CategoryIds, price \in Prices :
          /\ nextProductId <= MaxCatalogProducts
          /\ ProductCreate(seller, seller_code, categoryId, price, "Bosch", FALSE)
    \/ \E instance \in ProductIds, seller_code \in SellerCodes \cup {"SC-3"},
          price \in Prices :
          ProductUpdate(instance, seller_code, price)

SpecProducts == Init /\ [][NextProducts]_vars

\* Browsing: one seller, up to three categories in any forest (so a root
\* with a child and a grandchild), each switched on and off, and products
\* of one price placed in them and switched on and off.
MaxBrowseCategories == 3

NextBrowse ==
    \/ Register("+998901234567", "P@ssw0rd1", "P@ssw0rd1")
    \/ \E parent \in ParentChoices :
          nextCategoryId <= MaxBrowseCategories /\ CategoryCreate(parent, TRUE)
    \/ \E instance \in CategoryIds, is_active \in {"true", "false"} :
          CategoryUpdate(instance, Absent, is_active)
    \/ \E seller \in DOMAIN user, seller_code \in SellerCodes,
          categoryId \in CategoryIds :
          /\ nextProductId <= MaxCatalogProducts
          /\ ProductCreate(seller, seller_code, categoryId, 10, "Bosch", FALSE)
    \/ \E p \in ProductIds, is_active \in BOOLEAN :
          AdminChangeProduct(p, 10, TRUE, is_active, FALSE)

SpecBrowse == Init /\ [][NextBrowse]_vars

C15_ListIncludesDirectChildren ==
    \A C \in CategoryIds :
        LET q == [NoParams EXCEPT !.category = C]
            listed == ProductList(ProductGetQueryset(ProductIds, q), q)
        IN  Range(listed) =
               {p \in ProductIds :
                   /\ product[p].is_active
                   /\ \/ product[p].category = C
                      \/ /\ category[product[p].category].parent = C
                         /\ category[product[p].category].is_active}

\* C18 (as claimed; the code does not keep it): the product_count of the
\* detailed view of a category is the number of its active products plus
\* the number of active products of its active immediate children.
C18_DetailCountIncludesChildren ==
    \A c \in CategoryIds :
        \A r \in DOMAIN CategoryRetrieve(ProductIds, c) :
            CategoryRetrieve(ProductIds, c)[r].product_count =
               Cardinality({p \in ProductIds :
                   /\ product[p].is_active
                   /\ \/ product[p].category = r
                      \/ /\ category[product[p].category].parent = r
                         /\ category[product[p].category].is_active})

\* C17 (as claimed; the code does not keep it): on each endpoint that reads
\* limit, a limit that is not a number gives the response of the request
\* without limit, with no error.
C17_NonNumericLimitIgnored ==
    \A text \in {t \in LimitTexts : t # "absent" /\ ~IsNumeric(t)} :
        /\ CategoryPopularResponse(ProductIds, text)
              = CategoryPopularResponse(ProductIds, "absent")
        /\ \A id \in CategoryIds, include_subcategories \in BOOLEAN :
              CategoryProductsResponse(ProductIds, id, include_subcategories, text)
                 = CategoryProductsResponse(ProductIds, id,
                                            include_subcategories, "absent")
        /\ ProductLatestResponse(ProductGetQueryset(ProductIds, NoParams), text)
              = ProductLatestResponse(ProductGetQueryset(ProductIds, NoParams),
                                      "absent")

CompanyChoices == {1}

\* The free-text queries of the model.
SearchQueries == {"bo", "sc"}

\* C4: a product with is_active = False is in the result of no public
\* product listing (list, search, featured, latest, popular, in_stock,
\* related, category products, company products), whatever the parameters,
\* and no derived count changes when the product is taken out of the table
\* (category list, detail, tree, subcategories, popular, empty, stats and
\* filters, and the product filters).
C4_InactiveExcluded ==
    \A P \in ProductIds :
      ~product[P].is_active =>
        LET all == ProductIds
            rest == ProductIds \ {P}
        IN  /\ \A q \in ProductParams :
                 LET queryset == ProductGetQueryset(all, q) IN
                 /\ P \notin Range(ProductList(queryset, q))
                 /\ \A query \in SearchQueries :
                      P \notin ProductSearch(queryset, q, query)
                 /\ P \notin Range(ProductFeatured(queryset))
                 /\ P \notin Range(ProductLatest(queryset, LatestDefaultLimit))
                 /\ P \notin ProductPopular(queryset)
                 /\ P \notin ProductInStock(queryset)
                 /\ \A id \in ProductIds :
                      P \notin Range(ProductRelated(queryset, q, id))
                 /\ ProductFilters(queryset)
                      = ProductFilters(ProductGetQueryset(rest, q))
            /\ \A c \in CompanyChoices : P \notin CompanyProducts(all, c)
            /\ \A c \in CategoryIds :
                 /\ \A include_subcategories \in BOOLEAN :
                      P \notin CategoryProducts(all, c, include_subcategories)
                 /\ CategoryRetrieve(all, c) = CategoryRetrieve(rest, c)
                 /\ CategorySubcategories(all, c) = CategorySubcategories(rest, c)
                 /\ CategoryStats(all, c) = CategoryStats(rest, c)
                 /\ CategorySuggestionCount(all, c) = CategorySuggestionCount(rest, c)
            /\ \A cq \in CategoryParams :
                 \A c \in DOMAIN CategoryList(all, cq) :
                    CategoryList(all, cq)[c] = ListProductCount(rest, c, TRUE)
            /\ CategoryTree(all) = CategoryTree(rest)
            /\ CategoryPopular(all) = CategoryPopular(rest)
            /\ CategoryEmpty(all) = CategoryEmpty(rest)
            /\ CategoryFilters(all) = CategoryFilters(rest)

\* An inactive product that is featured and in stock shares an active
\* subcategory with an active product: every filter but is_active lets it
\* through, and the category counts one product.
C4_Witness ==
    \E P, Q \in ProductIds :
        /\ ~product[P].is_active /\ product[Q].is_active
        /\ product[P].category = product[Q].category
        /\ product[P].is_featured /\ product[P].in_stock
        /\ category[product[P].category].is_active
        /\ category[product[P].category].parent # NoCategory
        /\ category[category[product[P].category].parent].is_active
        /\ P \notin Range(ProductList(ProductGetQueryset(ProductIds, NoParams),
                                        NoParams))
        /\ Q \in Range(ProductList(ProductGetQueryset(ProductIds, NoParams),
                                    NoParams))
        /\ CategoryList(ProductIds, NoCategoryParams)[product[P].category] = 1

ItemPrices == {15, 30}

Quantities == {1, 2}

NextOrders ==
    \/ Register("+998901234567", "P@ssw0rd1", "P@ssw0rd1")
    \/ nextCategoryId = 1 /\ CategoryCreate(NoCategory, TRUE)
    \/ \E seller \in DOMAIN user, seller_code \in SellerCodes,
          categoryId \in CategoryIds, price \in ItemPrices :
          /\ nextProductId <= MaxCatalogProducts
          /\ ProductCreate(seller, seller_code, categoryId, price, "Bosch", FALSE)
    \/ \E p \in ProductIds, price \in ItemPrices :
          AdminChangeProduct(p, price, TRUE, TRUE, FALSE)
    \/ \E p \in ProductIds : AdminDeleteProduct(p)
    \/ \E owner \in DOMAIN user, hex \in {UuidHexA, UuidHexC},
          subtotal \in {0, 60}, delivery_fee \in {0, 5},
          total_amount \in {0, 60, 65} :
          /\ nextOrderId <= MaxLedgerOrders
          /\ AdminAddOrder(owner, hex, "pending", subtotal, delivery_fee,
                           total_amount)
    \/ \E o \in OrderIds, subtotal \in {0, 60}, delivery_fee \in {0, 5},
          total_amount \in {0, 60, 65} :
          AdminChangeOrder(o, UuidHexA, order[o].status, subtotal,
                           delivery_fee, total_amount)
    \/ \E o \in OrderIds, p \in ProductIds, quantity \in Quantities,
          price \in ItemPrices :
          AdminAddOrderItem(o, p, quantity, price)
    \/ \E i \in OrderItemIds, quantity \in Quantities, price \in ItemPrices :
          AdminChangeOrderItem(i, quantity, price)
    \/ \E i \in OrderItemIds : AdminDeleteOrderItem(i)

SpecOrders == Init /\ [][NextOrders]_vars

\* The sum of total_price over a set of order items.
RECURSIVE SumTotalPrice(_)
SumTotalPrice(items) ==
    IF items = {} THEN 0
    ELSE LET i == CHOOSE x \in items : TRUE
         IN  TotalPrice(i) + SumTotalPrice(items \ {i})

\* C5 (as claimed; the code does not keep it): for every stored order,
\* total_amount = subtotal + delivery_fee.
C5_TotalIsSubtotalPlusFee ==
    \A o \in OrderIds :
        order[o].total_amount = order[o].subtotal + order[o].delivery_fee

\* C6: the total_price of every order item is its quantity times its own
\* stored price, and a step that changes the price of the product an item
\* refers to leaves the item's stored price and its total_price as they were.
C6_ItemTotalFromStoredPrice ==
    [][/\ \A i \in DOMAIN orderItem' :
             TotalPrice(i)' = orderItem'[i].quantity * orderItem'[i].price
       /\ \A i \in OrderItemIds :
             LET p == orderItem[i].product IN
             (p \in DOMAIN product' /\ product'[p].price # product[p].price)
             => /\ i \in DOMAIN orderItem'
                /\ orderItem'[i].price = orderItem[i].price
                /\ TotalPrice(i)' = TotalPrice(i)
      ]_vars

\* The price of a product was changed away from the price stored in an
\* order item that refers to it.
C6_Witness ==
    /\ resp.op = "admin_product"
    /\ \E i \in OrderItemIds :
          /\ orderItem[i].product \in ProductIds
          /\ product[orderItem[i].product].price # orderItem[i].price
          /\ TotalPrice(i) = 2 * orderItem[i].price

\* C7 (as claimed; the code does not keep it): for every stored order,
\* subtotal is the sum over its current items of quantity times stored price.
C7_SubtotalIsSumOfItems ==
    \A o \in OrderIds : order[o].subtotal = SumTotalPrice(ItemsOf(o))

\* The category operations alone, every category active.
NextCategories ==
    \/ \E parent \in ParentChoices : CategoryCreate(parent, TRUE)
    \/ \E instance \in CategoryIds, parent \in ParentChoices \cup {Absent} :
          CategoryUpdate(instance, parent, "absent")

SpecCategories == Init /\ [][NextCategories]_vars

(***************************************************************************)
(* The vocabulary of the properties of the category tree, stated on the    *)
(* stored rows and not through the serializer's walk.                      *)
(***************************************************************************)
\* The categories whose parent is c.
ChildrenOf(c) == {d \in CategoryIds : category[d].parent = c}

\* The categories within n levels below those of `level`.
RECURSIVE DescendantsWithin(_, _)
DescendantsWithin(level, n) ==
    IF n = 0 \/ level = {} THEN {}
    ELSE LET below == UNION {ChildrenOf(c) : c \in level}
         IN  below \cup DescendantsWithin(below, n - 1)

\* Every descendant of c, at any depth.
Descendants(c) == DescendantsWithin({c}, Cardinality(CategoryIds))

\* Following parent from c, a category with no parent is met within n hops.
RECURSIVE RootWithin(_, _)
RootWithin(c, n) ==
    IF category[c].parent = NoCategory THEN TRUE
    ELSE IF n = 0 THEN FALSE
    ELSE RootWithin(category[c].parent, n - 1)

\* C1: in every reachable state, following `parent` from any category
\* reaches a category with no parent in at most N hops, N the number of
\* categories: the parent relation has no cycle.
C1_ParentChainAcyclic ==
    \A c \in CategoryIds : RootWithin(c, Cardinality(CategoryIds))

\* A re-parenting of a category that has a grandchild was accepted.
C1_Witness ==
    /\ resp.op = "category_update" /\ resp.error = "none"
    /\ resp.parent \in CategoryIds
    /\ \E d \in Descendants(resp.target) :
          category[d].parent # resp.target

\* C2: an update of A whose proposed parent is a descendant of A, at any
\* depth, fails with the circular-relationship error and stores nothing.
C2_DescendantParentRejected ==
    [][(/\ resp'.op = "category_update"
        /\ resp'.parent \in Descendants(resp'.target))
       => (/\ resp'.error = "circular"
           /\ resp'.status = 400
           /\ category' = category)]_vars

\* A grandchild (or deeper) was proposed as parent and refused.
C2_Witness ==
    /\ resp.op = "category_update" /\ resp.error = "circular"
    /\ resp.parent \in Descendants(resp.target)
    /\ category[resp.parent].parent # resp.target

\* The number of parent links between c and the root above it.
RECURSIVE Depth(_)
Depth(c) == IF category[c].parent = NoCategory THEN 0
            ELSE 1 + Depth(category[c].parent)

\* C19: the breadcrumb trail of every category C starts at a category
\* without parent, each entry is the parent of the next, the last entry is
\* C, and the trail has depth(C) + 1 entries.
C19_BreadcrumbsRootFirst ==
    \A C \in CategoryIds :
        LET trail == GetBreadcrumbs(C) IN
        /\ Len(trail) = Depth(C) + 1
        /\ category[trail[1]].parent = NoCategory
        /\ \A i \in 1..(Len(trail) - 1) : category[trail[i + 1]].parent = trail[i]
        /\ trail[Len(trail)] = C

\* A category was moved below another one and now lies two levels deep:
\* its trail has three entries.
C19_Witness ==
    /\ resp.op = "category_update" /\ resp.status = 200
    /\ resp.parent \in CategoryIds
    /\ Len(GetBreadcrumbs(resp.target)) = 3

\* C3: an update of A with parent = A fails with the self-parent error,
\* which is not the circular-relationship error, and stores nothing.
C3_SelfParentRejected ==
    [][(/\ resp'.op = "category_update"
        /\ resp'.parent = resp'.target)
       => (/\ resp'.error = "self_parent"
           /\ resp'.error # "circular"
           /\ resp'.status = 400
           /\ category' = category)]_vars

\* A category with a parent and a child was proposed as its own parent.
C3_Witness ==
    /\ resp.op = "category_update" /\ resp.error = "self_parent"
    /\ resp.parent = resp.target
    /\ category[resp.target].parent # NoCategory
    /\ ChildrenOf(resp.target) # {}

\* Deletion: a seller and a customer (two registrations in all), a company,
\* categories in any forest with or without the company, products of the
\* seller, an order of the customer with items, and the admin deleting any
\* row.
NextIntegrity ==
    \/ \E phone \in Phones :
          /\ nextUserId <= Cardinality(Phones)
          /\ Register(phone, "P@ssw0rd1", "P@ssw0rd1")
    \/ AdminAddCompany(TRUE)
    \/ \E parent \in ParentChoices :
          nextCategoryId <= MaxBrowseCategories /\ CategoryCreate(parent, TRUE)
    \/ \E c \in CategoryIds, k \in CompanyIds : AdminSetCategoryCompany(c, k)
    \/ \E seller_code \in SellerCodes, categoryId \in CategoryIds :
          /\ "+998901234567" \in DOMAIN user
          /\ nextProductId <= MaxCatalogProducts
          /\ ProductCreate("+998901234567", seller_code, categoryId, 10,
                           "Bosch", FALSE)
    \/ /\ nextOrderId <= MaxLedgerOrders
       /\ AdminAddOrder("+998907654321", UuidHexA, "pending", 0, 0, 0)
    \/ \E o \in OrderIds, p \in ProductIds : AdminAddOrderItem(o, p, 1, 10)
    \/ \E phone \in Phones : AdminDeleteUser(phone)
    \/ \E k \in CompanyIds : AdminDeleteCompany(k)
    \/ \E c \in CategoryIds : AdminDeleteCategory(c)
    \/ \E p \in ProductIds : AdminDeleteProduct(p)
    \/ \E o \in OrderIds : AdminDeleteOrder(o)

SpecIntegrity == Init /\ [][NextIntegrity]_vars

\* No stored row refers to a row that is not stored.
NoDanglingReference ==
    /\ \A c \in CategoryIds :
          /\ category[c].parent \in CategoryIds \cup {NoCategory}
          /\ category[c].company \in CompanyIds \cup {NoCompany}
    /\ \A p \in ProductIds :
          /\ product[p].category \in CategoryIds
          /\ product[p].seller \in DOMAIN user
    /\ \A o \in OrderIds : order[o].user \in DOMAIN user
    /\ \A i \in OrderItemIds :
          /\ orderItem[i].order \in OrderIds
          /\ orderItem[i].product \in ProductIds
    /\ DOMAIN token \subseteq DOMAIN user

\* C20: after every step, a deletion of a category, product, order, company
\* or user included, no stored row refers to a row that is not stored; and
\* the deletion of a category removes exactly that category, its
\* descendants at every depth, their products and the order items of those
\* products.
C20_CascadeKeepsIntegrity ==
    [][/\ NoDanglingReference'
       /\ resp'.op = "admin_category_delete" =>
             LET gone == {resp'.target} \cup Descendants(resp'.target) IN
             /\ DOMAIN category' = CategoryIds \ gone
             /\ DOMAIN product' =
                   {p \in ProductIds : product[p].category \notin gone}
             /\ DOMAIN orderItem' =
                   {i \in OrderItemIds :
                       product[orderItem[i].product].category \notin gone}
      ]_vars

\* One deletion of a category took three categories, a product and an
\* order item with it, and the order of the item is still stored.
C20_Witness ==
    /\ resp.op = "admin_category_delete"
    /\ resp.deleted.categories = 3
    /\ resp.deleted.products > 0 /\ resp.deleted.items > 0
    /\ OrderIds # {}


(***************************************************************************)
(* Order status: orders written with every status the admin forms can      *)
(* send, and one value outside STATUS_CHOICES.                             *)
(***************************************************************************)
StatusInputs ==
    {"pending", "confirmed", "processing", "shipped", "delivered", "cancelled",
     "refunded"}

NextOrderStatus ==
    \/ Register("+998901234567", "P@ssw0rd1", "P@ssw0rd1")
    \/ \E owner \in DOMAIN user, hex \in {UuidHexA, UuidHexC},
          status \in StatusInputs \cup {"absent"} :
          AdminAddOrder(owner, hex, status, 0, 0, 0)
    \/ \E o \in OrderIds, status \in StatusInputs :
          AdminChangeOrder(o, UuidHexA, status, 0, 0, 0)

SpecOrderStatus == Init /\ [][NextOrderStatus]_vars

NextOrderNumbers ==
    \/ Register("+998901234567", "P@ssw0rd1", "P@ssw0rd1")
    \/ \E owner \in DOMAIN user, hex \in UuidHexes :
          AdminAddOrder(owner, hex, "absent", 0, 0, 0)
    \/ \E o \in OrderIds, hex \in UuidHexes, status \in OrderStatuses :
          AdminChangeOrder(o, hex, status, 0, 0, 0)
    \/ \E o \in OrderIds : AdminDeleteOrder(o)

SpecOrderNumbers == Init /\ [][NextOrderNumbers]_vars

HexUpperDigits ==
    {"0", "1", "2", "3", "4", "5", "6", "7", "8", "9",
     "A", "B", "C", "D", "E", "F"}

\* "ORD-" followed by eight uppercase hexadecimal digits
WellFormedOrderNumber(n) ==
    /\ Len(n) = 12
    /\ SubSeq(n, 1, 4) = <<"O", "R", "D", "-">>
    /\ \A k \in 5..12 : n[k] \in HexUpperDigits

\* C24: every stored order has an order number of the form "ORD-" plus
\* eight uppercase hexadecimal digits, no two stored orders share an order
\* number, and a later save of an order leaves its order number unchanged.
C24_OrderNumbers ==
    [][/\ \A o \in DOMAIN order' : WellFormedOrderNumber(order'[o].order_number)
       /\ \A o1, o2 \in DOMAIN order' :
             order'[o1].order_number = order'[o2].order_number => o1 = o2
       /\ \A o \in DOMAIN order \cap DOMAIN order' :
             order'[o].order_number = order[o].order_number]_vars

\* Two orders are stored with generated numbers and one of them has just
\* been saved again.
C24_Witness ==
    /\ Cardinality(DOMAIN order) = 2
    /\ resp.op = "admin_order_change"
    /\ resp.errors = {}
    /\ order[resp.target].status = "shipped"
    /\ order[resp.target].order_number = GenerateOrderNumber(UuidHexC)


(***************************************************************************)
(* Products of a category, with and without its subcategories.             *)
(***************************************************************************)
\* The active products of category id, of its active immediate children
\* too when `wide`.
ProductsInScope(id, wide) ==
    {p \in DOMAIN product :
        /\ product[p].is_active
        /\ \/ product[p].category = id
           \/ /\ wide
              /\ category[product[p].category].parent = id
              /\ category[product[p].category].is_active}

\* p comes before r in the ordering.
Before(p, r, ordering) ==
    IF ordering = "created_at"
    THEN product[p].created_at < product[r].created_at
    ELSE product[r].created_at < product[p].created_at

\* seq is the first n rows of the set U in the ordering.
FirstOfOrdered(seq, U, n, ordering) ==
    /\ Range(seq) \subseteq U
    /\ Len(seq) = IF n < Cardinality(U) THEN n ELSE Cardinality(U)
    /\ \A i, j \in DOMAIN seq : i < j => Before(seq[i], seq[j], ordering)
    /\ \A p \in Range(seq), r \in U \ Range(seq) : Before(p, r, ordering)

\* C22: products(id) with include_subcategories returns the active products
\* of the category and of its active immediate children, ordered and then
\* cut to the limit; without it, the category's own active products only.
C22_ProductsOfCategory ==
    \A id \in CategoryGetQueryset(ProductIds, NoCategoryParams),
       wide \in BOOLEAN, ordering \in ProductOrderings,
       text \in {"absent", "1", "2"} :
        LET r == CategoryProductsOrdered(ProductIds, id, wide, ordering, text)
            n == IF text = "absent" THEN Cardinality(ProductIds) ELSE IntOf(text)
        IN  /\ r.status = 200
            /\ FirstOfOrdered(r.results, ProductsInScope(id, wide), n, ordering)

\* A category with an active child and a grandchild, a product in each:
\* the wide listing cut to one row holds the child's product, the newest
\* of the union being the grandchild's had it counted.
C22_Witness ==
    /\ 1 \in CategoryGetQueryset(ProductIds, NoCategoryParams)
    /\ \E c, g \in CategoryIds, p, q \in ProductIds :
          /\ category[c].parent = 1 /\ category[c].is_active
          /\ category[g].parent = c /\ category[g].is_active
          /\ product[p].category = c /\ product[p].is_active
          /\ product[q].category = g /\ product[q].is_active
          /\ CategoryProductsOrdered(ProductIds, 1, TRUE, "-created_at", "1").results
                = <<p>>


(***************************************************************************)
(* Related products: enough products of one category to pass the limit of  *)
(* the listing; the first MaxVariedProducts of them vary in category and   *)
(* in being active, all of them in brand.                                  *)
(***************************************************************************)
MaxVariedProducts == 2

Brands == {"Bosch", "Makita"}

NextRelated ==
    \/ Register("+998901234567", "P@ssw0rd1", "P@ssw0rd1")
    \/ nextCategoryId <= 2 /\ CategoryCreate(NoCategory, TRUE)
    \/ \E seller \in DOMAIN user, brand \in Brands,
          categoryId \in CategoryIds :
          /\ nextCategoryId = 3
          /\ categoryId = 1 \/ nextProductId <= MaxVariedProducts
          /\ ProductCreate(seller, "SC-" \o ToString(nextProductId),
                           categoryId, 10, brand, FALSE)
    \/ \E p \in ProductIds :
          /\ p <= MaxVariedProducts
          /\ product[p].is_active
          /\ AdminChangeProduct(p, 10, TRUE, FALSE, FALSE)

SpecRelated == Init /\ [][NextRelated]_vars

\* The products related(P) chooses from: active, in P's category, not P.
RelatedCandidates(P) ==
    {p \in DOMAIN product : /\ p # P
                            /\ product[p].is_active
                            /\ product[p].category = product[P].category}

NextConcurrentUpdates ==
    \/ nextCategoryId <= MaxBrowseCategories /\ CategoryCreate(NoCategory, TRUE)
    \/ \E w \in Workers, instance \in CategoryIds, parent \in ParentChoices :
          CategoryUpdateValidate(w, instance, parent)
    \/ \E w \in Workers : CategoryUpdateSave(w)

SpecConcurrentUpdates == Init /\ [][NextConcurrentUpdates]_vars

\* C25: no step of two workers updating categories side by side, each
\* validating and then saving, takes an acyclic parent relation to one
\* with a cycle; two updates that would close a cycle together never both
\* commit.
C25_AcyclicUnderInterleaving ==
    [][(\A c \in CategoryIds : RootWithin(c, Cardinality(CategoryIds)))
       => (\A c \in CategoryIds : RootWithin(c, Cardinality(CategoryIds)))']_vars


(***************************************************************************)
(* Two workers serving product creations side by side: each validates and  *)
(* inserts in two steps, in any interleaving.                              *)
(***************************************************************************)
NextConcurrentCreates ==
    \/ Register("+998901234567", "P@ssw0rd1", "P@ssw0rd1")
    \/ nextCategoryId = 1 /\ CategoryCreate(NoCategory, TRUE)
    \/ \E w \in Workers, seller \in DOMAIN user, seller_code \in SellerCodes,
          categoryId \in CategoryIds, price \in Prices :
          /\ nextProductId <= MaxConcurrentProducts
          /\ ProductCreateValidate(w, seller, seller_code, categoryId, price,
                                   "Bosch", FALSE)
    \/ \E w \in Workers : ProductCreateSave(w)

SpecConcurrentCreates == Init /\ [][NextConcurrentCreates]_vars

\* C26: under every interleaving of two workers creating products, each
\* checking the seller code and then inserting, no two stored products
\* share a seller code: an insert of a code that is stored by then is
\* refused by the store and adds no row.
C26_SellerCodeUniqueUnderInterleaving ==
    [][/\ \A p1, p2 \in DOMAIN product' :
             product'[p1].seller_code = product'[p2].seller_code => p1 = p2
       /\ \A w \in Workers :
             (/\ creating[w].pc = "validated"
              /\ creating'[w] = Idle
              /\ \E p \in DOMAIN product :
                    product[p].seller_code = creating[w].seller_code)
             => /\ product' = product
                /\ resp'.status = 500
                /\ resp'.error = "integrity_error"]_vars

\* Both workers had validated the same code; one insert was stored and the
\* other has just been refused.
C26_Witness ==
    /\ resp.op = "product_create"
    /\ resp.error = "integrity_error"
    /\ \E p \in DOMAIN product : product[p].seller_code = resp.seller_code
    /\ \A w \in Workers : creating[w] = Idle


\* C27: a credential belongs to one user and a user holds at most one; a
\* successful login of a user who holds a credential returns that one and
\* creates none, so two logins in a row return the same credential; a
\* successful login of a user who holds none (after a logout) returns a
\* credential that was never issued before, so not the one of before the
\* logout.
C27_OneCredentialPerUser ==
    [][/\ \A p, q \in DOMAIN token' :
             (token'[p] # NoToken /\ token'[p] = token'[q]) => p = q
       /\ (resp'.op = "login" /\ resp'.status = 200)
          => /\ resp'.token = token'[resp'.phone]
             /\ token[resp'.phone] # NoToken
                => /\ resp'.token = token[resp'.phone]
                   /\ token' = token
                   /\ nextTokenKey' = nextTokenKey
             /\ (/\ resp.op \in {"login", "register"}
                 /\ resp.status \in {200, 201}
                 /\ resp.phone = resp'.phone)
                => resp'.token = resp.token
             /\ token[resp'.phone] = NoToken
                => /\ \A k \in 1..MaxTokenKeys :
                         k < nextTokenKey => resp'.token # k
                   /\ \A q \in DOMAIN token \ {resp'.phone} :
                         token'[q] = token[q]]_vars

\* The only user logged in after a logout and holds the second credential
\* ever issued, not the first.
C27_Witness ==
    /\ resp.op = "login" /\ resp.status = 200
    /\ Cardinality(DOMAIN user) = 1
    /\ nextTokenKey = 3
    /\ resp.token = 2
    /\ token[resp.phone] = 2
    /\ resp.phone \in session


\* C28: the categories listed with has_products=true and those of empty()
\* are disjoint: every category of the first listing has at least one
\* active product, so a category whose products are all inactive is not
\* in it.
C28_HasProductsDisjointFromEmpty ==
    LET withProducts ==
            DOMAIN CategoryList(ProductIds,
                                [NoCategoryParams EXCEPT !.has_products = "true"])
    IN  /\ withProducts \cap DOMAIN CategoryEmpty(ProductIds) = {}
        /\ \A c \in withProducts :
              \E p \in DOMAIN product :
                 product[p].category = c /\ product[p].is_active


\* C29: an update of category A with parent P is accepted, and P stored as
\* the parent of A, exactly when P is neither A nor a descendant of A; an
\* update to no parent is always accepted; a create is never refused,
\* whatever its parent.
C29_RejectedExactlyOnCycle ==
    [][/\ (resp'.op = "category_update" /\ resp'.parent # Absent)
          => /\ resp'.status = 200
                <=> resp'.parent \notin
                        {resp'.target} \cup Descendants(resp'.target)
             /\ resp'.status \in {200, 400}
             /\ resp'.status = 200
                => category'[resp'.target].parent = resp'.parent
             /\ resp'.status = 400 => category' = category
             /\ resp'.parent = NoCategory => resp'.status = 200
       /\ resp'.op = "category_create"
          => /\ resp'.status = 201
             /\ category'[resp'.target].parent = resp'.parent]_vars

\* A category with a child moved under a category that has a parent of its
\* own and is not below it.
C29_Witness ==
    /\ resp.op = "category_update" /\ resp.status = 200
    /\ resp.parent \in CategoryIds
    /\ category[resp.parent].parent \in CategoryIds
    /\ ChildrenOf(resp.target) # {}
    /\ nextCategoryId > MaxCategories


(***************************************************************************)
(* Profile updates with every field of the serializer in the payload.      *)
(***************************************************************************)
FramePayloads ==
    {[id |-> 99, phone_number |-> "+998907654321", first_name |-> "Vali",
      last_name |-> "Valiyev", location |-> "Toshkent",
      is_verified |-> "true", date_joined |-> 0],
     [NoPayload EXCEPT !.first_name = "", !.last_name = "Valiyev"],
     [NoPayload EXCEPT !.last_name = "", !.location = "Toshkent",
                       !.is_verified = "true"],
     [NoPayload EXCEPT !.location = ""],
     [NoPayload EXCEPT !.is_verified = "true", !.id = 99]}

NextProfileFrame ==
    \/ \E phone \in Phones : Register(phone, "P@ssw0rd1", "P@ssw0rd1")
    \/ \E credential \in Credentials : Logout(credential)
    \/ \E credential \in Credentials, payload \in FramePayloads :
          ProfileUpdate(credential, payload)

SpecProfileFrame == Init /\ [][NextProfileFrame]_vars

\* C30: whatever the payload, a profile update leaves the id, phone number,
\* verification flag and join date of every user as they were, and every
\* other user, the credentials and the rest of the store untouched; of the
\* caller only first_name, last_name and location can differ afterwards;
\* an update that fails (400 or 401) changes nothing.
C30_ProfileUpdateFrame ==
    [][resp'.op = "profile_update" =>
          /\ DOMAIN user' = DOMAIN user
          /\ \A p \in DOMAIN user :
                /\ user'[p] = [user[p] EXCEPT
                                  !.first_name = user'[p].first_name,
                                  !.last_name = user'[p].last_name,
                                  !.location = user'[p].location]
                /\ p # resp'.user => user'[p] = user[p]
          /\ <<nextUserId, token, nextTokenKey, session>>'
                = <<nextUserId, token, nextTokenKey, session>>
          /\ <<companyVars, categoryVars, productVars, orderVars>>'
                = <<companyVars, categoryVars, productVars, orderVars>>
          /\ resp'.status # 200 => user' = user
      ]_vars

\* An update that carried a new last name failed on its blank first name,
\* and the caller's last name is the old one.
C30_Witness ==
    /\ resp.op = "profile_update" /\ resp.status = 400
    /\ resp.payload.last_name = "Valiyev"
    /\ resp.user \in DOMAIN user
    /\ resp.errors = {"first_name_blank"}
    /\ user[resp.user].last_name = "Karimov"
    /\ user[resp.user].first_name = "Ali"

=========================================================================
